---- MODULE Spec2Model ----
(***************************************************************************)
(* zhsbot: the polling loop (do_search), the pagination driver             *)
(* (query_and_parse), the per-column schedule parser                       *)
(* (get_available_times_for_court) and the window filter (filter_courts)   *)
(* of src/main.rs, as a state machine.                                     *)
(*                                                                         *)
(* The booking site and the push endpoint are the environment: every page  *)
(* request is answered by a transport error, or by a response with some    *)
(* HTTP status whose body is unreadable, holds no court column, or holds   *)
(* court columns; every notification is delivered or fails.                *)
(***************************************************************************)
EXTENDS Integers, Sequences, FiniteSets, TLC

\* ------------------------------------------------------------------ bounds
\* Times of day are 0..MaxTime (abstract minutes of NaiveTime).
MaxTime == 2
\* Court numbers the site uses are 1..MaxCourt.
MaxCourt == 1
\* A court column holds at most MaxCells cells marked available.
MaxCells == 1
\* A schedule page holds at most MaxCols court columns.
MaxCols == 1
\* In the content-rich scenario the site serves at most MaxPages pages with
\* court columns in one tick.
MaxPages == 2
\* Inputs of the filter when it is checked as a pure function: courts
\* 1..FilterMaxCourt, times 0..FilterMaxTime, at most MaxSlots intervals in
\* the whole input map.
FilterMaxCourt == 2
FilterMaxTime == 3
MaxSlots == 3

\* ------------------------------------------------------- program constants
\* page_num is a u8 (build_request_url's page_num: u8): it counts modulo 2^8.
PageModulus == 256
\* First page index per activity (query_and_parse's match on activity).
FirstPageTennis == 2
FirstPageOther == 1

Activities == {"TENNIS", "BEACH", "PICKLE"}
Times == 0..MaxTime
Courts == 1..MaxCourt

\* HTTP statuses the site answers with; reqwest's StatusCode::is_success.
Statuses == {200, 404}
IsSuccess(status) == status >= 200 /\ status < 300

\* ------------------------------------------------------------ site content
\* The text of an available cell, "{start} - {end}", as the pair of its two
\* times.  The site's cells are one time unit long; one malformed label has
\* its end before its start.
WellFormedLabels == {<<s, s + 1>> : s \in 0..(MaxTime - 1)}
MalformedLabel == <<MaxTime, 0>>
Labels == WellFormedLabels \cup {MalformedLabel}

\* The text of a column header after the activity's prefix: a court number,
\* or text that is no number.
NotANumber == 0 - 1
Headers == Courts \cup {NotANumber}

SeqsUpTo(S, n) == UNION {[1..k -> S] : k \in 0..n}

\* One court column of a page: its header and its available cells in order.
Columns == [header : Headers, cells : SeqsUpTo(Labels, MaxCells)]
PlainColumn == [header |-> 1, cells |-> <<>>]

\* ------------------------------------------------------ AvailabilityMap
\* BTreeMap<u32, Vec<NaiveTimeSpan>>: a function from the set of its keys.
EmptyMap == [c \in {} |-> <<>>]
MapInsert(m, k, v) == [c \in (DOMAIN m) \cup {k} |-> IF c = k THEN v ELSE m[c]]
MinKey(S) == CHOOSE k \in S : \A j \in S : k <= j
SeqElems(s) == {s[i] : i \in 1..Len(s)}

VARIABLES
  pc,            \* position of the program
  activity,      \* the activity do_search queries
  after,         \* desired_after_time
  before,        \* desired_before_time
  page_num,      \* query_and_parse's page_num
  result_map,    \* query_and_parse's result_map
  cols_done,     \* columns of the current page already parsed
  filtered,      \* do_search's filtered
  refiltered,    \* the filter applied to its own result
  tick_result,   \* what query_and_parse returned in this tick
  outcome,       \* the last event of the run
  nreq,          \* pages requested in this tick
  last_page,     \* page number of the last request
  bad_status,    \* a response of this tick had a non-success status
  seen,          \* <<court, interval>> pairs advertised on the pages of this tick
  notifyCount,   \* calls of Notifier::notify
  site_pages,    \* pages with court columns the site can serve in one tick
  site_columns   \* court columns the site can serve

vars == <<pc, activity, after, before, page_num, result_map, cols_done, filtered,
          refiltered, tick_result, outcome, nreq, last_page, bad_status, seen,
          notifyCount, site_pages, site_columns>>

\* ------------------------------------------------------------ pure functions
\* NaiveTimeSpan::parse_from_str(s, "{start} - {end}", "%R", "%R"): a span,
\* or an error when the end lies before the start.
ParseOk(label) == label[1] <= label[2]
ParseSpan(label) == [start |-> label[1], end |-> label[2]]

\* get_court_num: the number after the activity's prefix; panics for PICKLE
\* (todo!) and for a header that is no number (unwrap).
CourtNumPanics(header, act) == act = "PICKLE" \/ header = NotANumber

\* get_available_times_for_court without its early return (faulty variant).
get_available_times_no_early_return(column, act, map) ==
  IF CourtNumPanics(column.header, act)
  THEN [panic |-> TRUE, map |-> map]
  ELSE IF \E i \in 1..Len(column.cells) : ~ParseOk(column.cells[i])
  THEN [panic |-> TRUE, map |-> map]
  ELSE [panic |-> FALSE,
        map |-> MapInsert(map, column.header,
                          [i \in 1..Len(column.cells) |-> ParseSpan(column.cells[i])])]

\* get_available_times_for_court: the court number first, then the cells; a
\* column without cells leaves the map alone; every cell is parsed (a
\* malformed one panics); the court's entry is replaced by the parsed spans.
get_available_times_for_court(column, act, map) ==
  IF CourtNumPanics(column.header, act)
  THEN [panic |-> TRUE, map |-> map]
  ELSE IF Len(column.cells) = 0
  THEN [panic |-> FALSE, map |-> map]
  ELSE IF \E i \in 1..Len(column.cells) : ~ParseOk(column.cells[i])
  THEN [panic |-> TRUE, map |-> map]
  ELSE [panic |-> FALSE,
        map |-> MapInsert(map, column.header,
                          [i \in 1..Len(column.cells) |-> ParseSpan(column.cells[i])])]

\* The intervals a column advertises, with its court.
Advertised(column) ==
  {<<column.header, ParseSpan(column.cells[i])>> : i \in 1..Len(column.cells)}

\* The filter's test with inclusive bounds (faulty variant).
MatchesInclusive(slot, a, b) == slot.start >= a /\ slot.start <= b

\* slot.start.cmp(after) == Greater && slot.start.cmp(before) == Less
Matches(slot, a, b) == slot.start > a /\ slot.start < b

\* The push at the front of the court's vector (faulty variant).
PushFront(m, court, slot) ==
  IF court \in DOMAIN m
  THEN [m EXCEPT ![court] = <<slot>> \o @]
  ELSE MapInsert(m, court, <<slot>>)

\* filtered_courts.entry(court).or_default().push(slot)
Push(m, court, slot) ==
  IF court \in DOMAIN m
  THEN [m EXCEPT ![court] = Append(@, slot)]
  ELSE MapInsert(m, court, <<slot>>)

\* The inner loop started one slot late (faulty variant).
TimeslotsSkipFirst(m, court) == Tail(m[court])

\* for slot in timeslots: the slots the inner loop visits, in order.
Timeslots(m, court) == m[court]

\* The inner loop of filter_courts over one court's slots.
RECURSIVE FilterSlots(_, _, _, _, _)
FilterSlots(acc, court, timeslots, a, b) ==
  IF timeslots = <<>>
  THEN acc
  ELSE FilterSlots(IF Matches(Head(timeslots), a, b)
                   THEN Push(acc, court, Head(timeslots))
                   ELSE acc,
                   court, Tail(timeslots), a, b)

\* The outer loop of filter_courts: the courts in ascending order.
RECURSIVE FilterFrom(_, _, _, _, _)
FilterFrom(acc, m, keys, a, b) ==
  IF keys = {}
  THEN acc
  ELSE LET court == MinKey(keys)
       IN FilterFrom(FilterSlots(acc, court, Timeslots(m, court), a, b),
                     m, keys \ {court}, a, b)

filter_courts(available_times, desired_after_time, desired_before_time) ==
  FilterFrom(EmptyMap, available_times, DOMAIN available_times,
             desired_after_time, desired_before_time)

\* The first page of an activity.
FirstPage(act) == IF act = "TENNIS" THEN FirstPageTennis ELSE FirstPageOther


\* ------------------------------------------------------------------- do_search
\* The notification sent whatever the filter returned (faulty variant).
DoSearchAlwaysNotify(available_times) ==
  /\ filtered' = filter_courts(available_times, after, before)
  /\ tick_result' = "Some"
  /\ pc' = "NOTIFYING"
  /\ notifyCount' = notifyCount + 1

\* Some(available_times): filter; a non-empty result is printed and handed to
\* Notifier::notify, an empty one is followed by the sleep.
DoSearchOnSome(available_times) ==
  LET f == filter_courts(available_times, after, before)
  IN /\ filtered' = f
     /\ tick_result' = "Some"
     /\ IF f # EmptyMap
        THEN pc' = "NOTIFYING" /\ notifyCount' = notifyCount + 1
        ELSE pc' = "SLEEPING" /\ notifyCount' = notifyCount

\* None: panic!("Request or Parsing failed with error").
DoSearchOnNone ==
  /\ pc' = "ABORT"
  /\ tick_result' = "None"
  /\ UNCHANGED <<filtered, notifyCount>>

\* -------------------------------------------------------------- query_and_parse
\* A failed page returning the partial map (faulty variant).
ReturnPartial == DoSearchOnSome(result_map)

\* return None, on a request error or an unreadable body.
ReturnNone == DoSearchOnNone

\* return Some(result_map), on a page without court columns.
ReturnSome == DoSearchOnSome(result_map)

\* One more request of this tick, for page page_num.
Request ==
  /\ nreq' = nreq + 1
  /\ last_page' = page_num

\* perform_request(url) is Err: no response at all.
FetchTransportError ==
  /\ pc = "SEARCHING"
  /\ Request
  /\ outcome' = "TransportError"
  /\ ReturnNone
  /\ UNCHANGED <<activity, after, before, page_num, result_map, cols_done,
                 refiltered, bad_status, seen, site_pages, site_columns>>

\* perform_request(url) is Ok(resp), resp.text() is Err.
FetchDecodeError ==
  /\ pc = "SEARCHING"
  /\ \E status \in Statuses : bad_status' = (bad_status \/ ~IsSuccess(status))
  /\ Request
  /\ outcome' = "DecodeError"
  /\ ReturnNone
  /\ UNCHANGED <<activity, after, before, page_num, result_map, cols_done,
                 refiltered, seen, site_pages, site_columns>>

\* The body holds no court column: "No more courts found".
FetchEmptyPage ==
  /\ pc = "SEARCHING"
  /\ \E status \in Statuses : bad_status' = (bad_status \/ ~IsSuccess(status))
  /\ Request
  /\ outcome' = "EmptyPage"
  /\ ReturnSome
  /\ UNCHANGED <<activity, after, before, page_num, result_map, cols_done,
                 refiltered, seen, site_pages, site_columns>>

\* The body holds at least one court column: the for loop over them starts.
FetchCourtsPage ==
  /\ pc = "SEARCHING"
  /\ nreq < site_pages
  /\ \E status \in Statuses : bad_status' = (bad_status \/ ~IsSuccess(status))
  /\ Request
  /\ outcome' = "CourtsPage"
  /\ pc' = "PARSING"
  /\ cols_done' = 0
  /\ UNCHANGED <<activity, after, before, page_num, result_map, filtered,
                 refiltered, tick_result, seen, notifyCount, site_pages,
                 site_columns>>

\* One pass of the for loop: the next column of the page is parsed into
\* result_map, or the parse panics.
ParseColumn ==
  /\ pc = "PARSING"
  /\ cols_done < MaxCols
  /\ \E column \in site_columns :
       LET r == get_available_times_for_court(column, activity, result_map)
       IN IF r.panic
          THEN /\ pc' = "ABORT"
               /\ outcome' = "ParsePanic"
               /\ UNCHANGED <<result_map, seen, cols_done>>
          ELSE /\ pc' = "PARSING"
               /\ outcome' = outcome
               /\ result_map' = r.map
               /\ seen' = seen \cup Advertised(column)
               /\ cols_done' = cols_done + 1
  /\ UNCHANGED <<activity, after, before, page_num, filtered, refiltered,
                 tick_result, nreq, last_page, bad_status, notifyCount,
                 site_pages, site_columns>>

\* page_num += 1 after the last column.  At the top of the u8 range the
\* addition panics in a build with overflow checks and wraps in one without.
NextPage ==
  /\ pc = "PARSING"
  /\ cols_done >= 1
  /\ IF page_num + 1 < PageModulus
     THEN /\ page_num' = page_num + 1
          /\ pc' = "SEARCHING"
          /\ outcome' = outcome
     ELSE \E overflow_checks \in BOOLEAN :
            IF overflow_checks
            THEN /\ page_num' = page_num
                 /\ pc' = "ABORT"
                 /\ outcome' = "OverflowPanic"
            ELSE /\ page_num' = (page_num + 1) % PageModulus
                 /\ pc' = "SEARCHING"
                 /\ outcome' = outcome
  /\ cols_done' = 0
  /\ UNCHANGED <<activity, after, before, result_map, filtered, refiltered,
                 tick_result, nreq, last_page, bad_status, seen, notifyCount,
                 site_pages, site_columns>>

\* ---------------------------------------------------------------- Notifier
\* Notifier::notify: send() is Ok; do_search returns.
NotifyDelivered ==
  /\ pc = "NOTIFYING"
  /\ pc' = "DONE"
  /\ outcome' = "Notified"
  /\ UNCHANGED <<activity, after, before, page_num, result_map, cols_done,
                 filtered, refiltered, tick_result, nreq, last_page, bad_status,
                 seen, notifyCount, site_pages, site_columns>>

\* Notifier::notify: send() is Err; panic!.
NotifyFailed ==
  /\ pc = "NOTIFYING"
  /\ pc' = "ABORT"
  /\ outcome' = "NotifyPanic"
  /\ UNCHANGED <<activity, after, before, page_num, result_map, cols_done,
                 filtered, refiltered, tick_result, nreq, last_page, bad_status,
                 seen, notifyCount, site_pages, site_columns>>

\* sleep(5s) is over: the next iteration calls query_and_parse afresh.
WakeUp ==
  /\ pc = "SLEEPING"
  /\ pc' = "SEARCHING"
  /\ page_num' = FirstPage(activity)
  /\ result_map' = EmptyMap
  /\ filtered' = EmptyMap
  /\ tick_result' = "pending"
  /\ outcome' = "none"
  /\ nreq' = 0
  /\ last_page' = 0
  /\ bad_status' = FALSE
  /\ seen' = {}
  /\ cols_done' = 0
  /\ UNCHANGED <<activity, after, before, refiltered, notifyCount, site_pages,
                 site_columns>>

\* ------------------------------------------------------------ specification
\* main: do_search(date, after, before, notifier) with Activity::TENNIS.  The
\* site either serves few pages of any content, or as many pages as page_num
\* can count, of plain columns.
Init ==
  /\ pc = "SEARCHING"
  /\ activity = "TENNIS"
  /\ after \in Times
  /\ before \in Times
  /\ after < before
  /\ page_num = FirstPage(activity)
  /\ result_map = EmptyMap
  /\ cols_done = 0
  /\ filtered = EmptyMap
  /\ refiltered = EmptyMap
  /\ tick_result = "pending"
  /\ outcome = "none"
  /\ nreq = 0
  /\ last_page = 0
  /\ bad_status = FALSE
  /\ seen = {}
  /\ notifyCount = 0
  /\ \/ site_pages = MaxPages /\ site_columns = Columns
     \/ site_pages = PageModulus /\ site_columns = {PlainColumn}

Next ==
  \/ FetchTransportError
  \/ FetchDecodeError
  \/ FetchEmptyPage
  \/ FetchCourtsPage
  \/ ParseColumn
  \/ NextPage
  \/ NotifyDelivered
  \/ NotifyFailed
  \/ WakeUp

Spec == Init /\ [][Next]_vars


\* ------------------------------------------------ filter_courts on its own
FilterTimes == 0..FilterMaxTime
FilterSpans == {[start |-> s, end |-> s + 1] : s \in FilterTimes}

\* The availability maps over the given courts with at most budget intervals
\* in all, none of them empty for a court.
RECURSIVE MapsOver(_, _)
MapsOver(courts, budget) ==
  IF courts = {}
  THEN {EmptyMap}
  ELSE LET c == CHOOSE k \in courts : \A j \in courts : k >= j
           rest == courts \ {c}
       IN MapsOver(rest, budget)
          \cup UNION {{MapInsert(m, c, slots) :
                         m \in MapsOver(rest, budget - k),
                         slots \in [1..k -> FilterSpans]} : k \in 1..budget}

InputMaps == MapsOver(1..FilterMaxCourt, MaxSlots)

FilterInit ==
  /\ pc = "FILTER_INPUT"
  /\ activity = "TENNIS"
  /\ after \in FilterTimes
  /\ before \in FilterTimes
  /\ page_num = FirstPage(activity)
  /\ result_map \in InputMaps
  /\ cols_done = 0
  /\ filtered = EmptyMap
  /\ refiltered = EmptyMap
  /\ tick_result = "Some"
  /\ outcome = "none"
  /\ nreq = 0
  /\ last_page = 0
  /\ bad_status = FALSE
  /\ seen = {}
  /\ notifyCount = 0
  /\ site_pages = MaxPages
  /\ site_columns = Columns

\* filter_courts(available_times, after, before)
FilterOnce ==
  /\ pc = "FILTER_INPUT"
  /\ pc' = "FILTER_ONCE"
  /\ filtered' = filter_courts(result_map, after, before)
  /\ UNCHANGED <<activity, after, before, page_num, result_map, cols_done,
                 refiltered, tick_result, outcome, nreq, last_page, bad_status,
                 seen, notifyCount, site_pages, site_columns>>

\* filter_courts(filtered, after, before)
FilterTwice ==
  /\ pc = "FILTER_ONCE"
  /\ pc' = "FILTER_TWICE"
  /\ refiltered' = filter_courts(filtered, after, before)
  /\ UNCHANGED <<activity, after, before, page_num, result_map, cols_done,
                 filtered, tick_result, outcome, nreq, last_page, bad_status,
                 seen, notifyCount, site_pages, site_columns>>

FilterNext == FilterOnce \/ FilterTwice

FilterSpec == FilterInit /\ [][FilterNext]_vars


\* ======================================================================
\* Properties
\* ======================================================================
InTick == pc \in {"SEARCHING", "PARSING", "SLEEPING"}
NoEmptyEntry(m) == \A c \in DOMAIN m : Len(m[c]) >= 1

RECURSIVE IsSubseq(_, _)
IsSubseq(s, t) ==
  IF s = <<>> THEN TRUE
  ELSE IF t = <<>> THEN FALSE
  ELSE IF Head(s) = Head(t) THEN IsSubseq(Tail(s), Tail(t))
  ELSE IsSubseq(s, Tail(t))

\* C1 (as stated): the Notifier is invoked at most once, only with a
\* non-empty filtered map, and the loop then reaches DONE; a tick whose
\* filtered map is empty does not invoke it and stays in SEARCHING.
C1_NotifyThenDone ==
  /\ notifyCount <= 1
  /\ notifyCount = 1 => filtered # EmptyMap /\ pc \in {"NOTIFYING", "DONE"}
  /\ (tick_result = "Some" /\ filtered = EmptyMap) => pc = "SLEEPING" /\ notifyCount = 0
  /\ InTick => notifyCount = 0

\* C1 (amended): the Notifier is invoked at most once, only with a non-empty
\* filtered map; no further tick starts after the invocation: the loop
\* reaches DONE when the delivery succeeds and the process aborts when
\* Notifier::notify panics on a failed delivery; a tick whose filtered map is
\* empty does not invoke the Notifier and stays in SEARCHING.
C1_NotifyThenDoneOrNotifyPanic ==
  /\ notifyCount <= 1
  /\ notifyCount = 1 =>
       /\ filtered # EmptyMap
       /\ \/ pc \in {"NOTIFYING", "DONE"}
          \/ pc = "ABORT" /\ outcome = "NotifyPanic"
  /\ (tick_result = "Some" /\ filtered = EmptyMap) => pc = "SLEEPING" /\ notifyCount = 0
  /\ InTick => notifyCount = 0
  /\ pc = "DONE" => notifyCount = 1 /\ outcome = "Notified"

C1_Witness ==
  /\ pc = "DONE"
  /\ notifyCount = 1
  /\ filtered # EmptyMap
  /\ nreq >= 2

\* C2: with after < before, every interval the filter returns starts strictly
\* after `after` and strictly before `before`.
C2_FilterStrictlyInside ==
  (pc \in {"FILTER_ONCE", "FILTER_TWICE"} /\ after < before) =>
    \A c \in DOMAIN filtered : \A i \in 1..Len(filtered[c]) :
      filtered[c][i].start > after /\ filtered[c][i].start < before

C2_Witness ==
  /\ pc = "FILTER_ONCE"
  /\ after < before
  /\ filtered # EmptyMap
  /\ \E c \in DOMAIN result_map : \E i \in 1..Len(result_map[c]) :
       result_map[c][i].start = after
  /\ \E c \in DOMAIN result_map : \E i \in 1..Len(result_map[c]) :
       result_map[c][i].start = before

\* C3 (as stated): the pages requested in a tick are first, first+1,
\* first+2, ... with first = 2 for TENNIS and 1 for BEACH: the n-th request of
\* a tick is for page first + n - 1, however many pages had data before
\* (stated for ticks whose responses all had a success status).
C3_PagesInSequence ==
  (nreq >= 1 /\ ~bad_status) => last_page = (IF activity = "TENNIS" THEN 2 ELSE 1) + nreq - 1

\* C4: a failed fetch (request error or unreadable body) fails the whole
\* tick: the driver returns None, the accumulated courts are neither filtered
\* nor notified, and the run is in the fatal-abort state.
C4_FetchFailureAborts ==
  /\ outcome \in {"TransportError", "DecodeError"} =>
       tick_result = "None" /\ pc = "ABORT"
  /\ tick_result = "None" =>
       /\ pc = "ABORT"
       /\ filtered = EmptyMap
       /\ notifyCount = 0

C4_Witness ==
  /\ tick_result = "None"
  /\ outcome = "TransportError"
  /\ nreq >= 2
  /\ result_map # EmptyMap
  /\ pc = "ABORT"

\* C5 (as stated): a response with a non-success HTTP status fails the
\* fetch, so the tick fails and the run aborts.
C5_BadStatusAborts ==
  bad_status => tick_result = "None" /\ pc = "ABORT"

\* C6: filtering the filter's result with the same window returns it
\* unchanged.
C6_FilterIdempotent ==
  pc = "FILTER_TWICE" => refiltered = filtered

C6_Witness ==
  /\ pc = "FILTER_TWICE"
  /\ refiltered # EmptyMap
  /\ filtered # result_map
  /\ \E c \in DOMAIN filtered : Len(filtered[c]) >= 2

\* C7: every court of the filter's result is a court of the input, and its
\* intervals are a subsequence of the input's intervals for that court.
C7_FilterSubsequence ==
  pc \in {"FILTER_ONCE", "FILTER_TWICE"} =>
    /\ DOMAIN filtered \subseteq DOMAIN result_map
    /\ \A c \in DOMAIN filtered : IsSubseq(filtered[c], result_map[c])

C7_Witness ==
  /\ pc = "FILTER_ONCE"
  /\ \E c \in DOMAIN filtered :
       /\ Len(filtered[c]) = 2
       /\ filtered[c][1] # filtered[c][2]
       /\ Len(result_map[c]) = 3
       /\ filtered[c][1] = result_map[c][1]
       /\ filtered[c][2] = result_map[c][3]

\* C8 (as stated): the map a successful tick returns holds, under its court,
\* every interval advertised in any column of any visited page (stated for
\* ticks whose responses all had a success status).
C8_ReturnedMapComplete ==
  (tick_result = "Some" /\ ~bad_status) =>
    \A p \in seen :
      /\ p[1] \in DOMAIN result_map
      /\ p[2] \in SeqElems(result_map[p[1]])

\* C9: no availability map holds a court with an empty interval sequence,
\* neither the parsed map after any column nor the filtered map.
C9_NoEmptyEntry ==
  /\ NoEmptyEntry(result_map)
  /\ NoEmptyEntry(filtered)

C9_Witness ==
  /\ site_columns = Columns
  /\ pc = "SLEEPING"
  /\ nreq = 3
  /\ Cardinality(seen) = 1
  /\ result_map # EmptyMap
  /\ filtered = EmptyMap

\* C10 (as stated, for one tick): a tick in which every fetch succeeded and
\* the site advertised a slot starting strictly inside the window does not end
\* in the sleep (it ends with the notification); the site may answer every
\* later tick the same way, so a tick that ends in the sleep repeats for ever.
C10_AdvertisedMatchNotifies ==
  (pc = "SLEEPING" /\ ~bad_status) =>
    ~\E p \in seen : p[2].start > after /\ p[2].start < before

====
